---- MODULE Spec2Model ----
(***************************************************************************)
(* Connection and failover manager of the support ticketing system         *)
(* (src/lib/db.ts) and the admin database route that drives it.            *)
(*                                                                         *)
(* The program runs on one event loop.  A request is a chain of async      *)
(* functions; each process of the model is one such chain, kept as a call  *)
(* stack of frames.  A step of the model is one run-to-suspension slice:   *)
(* either the start of a request or the completion of an I/O call (both    *)
(* taken only when the microtask queue mq is empty), or the continuation   *)
(* at the head of mq.  A continuation enters mq when the promise it awaits *)
(* settles, in the order the awaits were registered.                       *)
(***************************************************************************)
EXTENDS Integers, Sequences, FiniteSets, TLC

\* Bounds: request slots, requests started in a behaviour of the connection
\* manager (Spec), of the admin route (SpecAdmin, SpecProbe, SpecRoute) and
\* of the ticket route (SpecTickets), the slots SpecRoute and SpecTickets
\* use, and tickets stored.
NProcs == 2
MaxOps == 3
MaxAdminOps == 2
MaxTicketOps == 2
MaxUpdateOps == 1
MaxAccessOps == 1
RouteSlots == 1
NTickets == 1

Procs == 1..NProcs
Roles == {"primary", "secondary"}
NoConn == 0
TicketIds == 1..NTickets
UserIds == {"u1", "u2", "a1"}

VARIABLES
  cached,          \* global.mongoose: conn, promise, currentDb
  useSecondaryDb,  \* process.env.USE_SECONDARY_DB === 'true'
  uri,             \* which of PRIMARY_DB_URI / SECONDARY_DB_URI are set
  attempts,        \* the runs of connectWithFailover, in order of creation
  procs,           \* the requests in progress
  mq,              \* microtask queue: processes whose awaited promise settled
  mongo,           \* role the default mongoose connection is open to, or none
  probes,          \* throwaway connections of testDatabaseConnection still open
  auditLog,        \* the AuditLog documents saved so far
  tickets,         \* per database, the owner of each stored ticket
  ticketFields,    \* per database, status, priority and category of each
  comments,        \* the Comment documents saved so far
  history,         \* the TicketHistory documents saved so far
  done,            \* the request that returned in the last step, if any
  ops              \* number of requests started so far

vars == <<cached, useSecondaryDb, uri, attempts, procs, mq, mongo,
          probes, auditLog, tickets, ticketFields, comments, history, done,
          ops>>

\* A ticket as POST /api/tickets stores it.
NewFields == [status |-> "open", priority |-> "medium", category |-> "general"]

RoleOf(useSecondary) == IF useSecondary THEN "secondary" ELSE "primary"

Ok(v) == [ok |-> TRUE, val |-> v]
Err == [ok |-> FALSE, val |-> 0]
\* An HTTP response, by its status code.
Code(c) == [ok |-> c = 200, val |-> c]

EmptyCache == [conn |-> NoConn, promise |-> 0, currentDb |-> "none"]

NoData == [kind |-> "none", from |-> "none", to |-> "none", outcome |-> "none"]

\* The JSON body of a ticket request; "" is a field left out.
NoBody == [status |-> "", priority |-> "", category |-> "", content |-> ""]

\* What a ticket response carries: the owners of the tickets whose data it
\* holds, and its `changes` count.
NoOut == [owners |-> {}, changes |-> 0]

\* A request slot.  id, op, arg, session, who, ticket, action, flagOk, body,
\* prev, joined and att are kept for the record: the request's number, the
\* operation and its inputs, cached.currentDb and the attempt in flight when
\* the request began, and the attempt its last dbConnect awaited.  changes is
\* the handler's list of changes still to be recorded, seen the owners of the
\* tickets it has read, out its response.
IdleProc ==
  [status |-> "idle", id |-> 0, op |-> "none", arg |-> FALSE, stack |-> <<>>,
   res |-> Err, prev |-> "none", joined |-> 0, att |-> 0,
   session |-> "none", who |-> "none", ticket |-> 0, action |-> "none",
   flagOk |-> TRUE, body |-> NoBody, changes |-> <<>>, seen |-> {},
   out |-> NoOut]

NoStatus == [isConnected |-> FALSE, currentDatabase |-> "none"]

\* What is recorded of a request when it returns: its inputs, its outcome
\* and the cache it left; status is what a getConnectionStatus call returned.
NoneDone ==
  [id |-> 0, op |-> "none", arg |-> FALSE, session |-> "none",
   who |-> "none", ticket |-> 0, action |-> "none", flagOk |-> TRUE,
   prev |-> "none", joined |-> 0, att |-> 0, res |-> Err,
   snap |-> EmptyCache, status |-> NoStatus, body |-> NoBody,
   out |-> NoOut]

Frame(fn, pc, useSec, att) ==
  [fn |-> fn, pc |-> pc, useSec |-> useSec, att |-> att, prev |-> "none",
   data |-> NoData]

\* The whole state as one record, so that the synchronous part of a call
\* chain can be composed as a function from state to state.  done is the
\* record of the step being taken, so it starts each step empty.
Cur ==
  [cached |-> cached, env |-> useSecondaryDb, attempts |-> attempts,
   procs |-> procs, mq |-> mq, mongo |-> mongo, probes |-> probes,
   auditLog |-> auditLog, tickets |-> tickets,
   ticketFields |-> ticketFields, comments |-> comments,
   history |-> history, done |-> NoneDone]

Install(s) ==
  /\ cached' = s.cached
  /\ useSecondaryDb' = s.env
  /\ attempts' = s.attempts
  /\ procs' = s.procs
  /\ mq' = s.mq
  /\ mongo' = s.mongo
  /\ probes' = s.probes
  /\ auditLog' = s.auditLog
  /\ tickets' = s.tickets
  /\ ticketFields' = s.ticketFields
  /\ comments' = s.comments
  /\ history' = s.history
  /\ done' = s.done

Settled(att) == att.pc \in {"resolved", "rejected"}

Top(s, p) == s.procs[p].stack[Len(s.procs[p].stack)]

Push(s, p, f) == [s EXCEPT !.procs[p].stack = Append(@, f)]

Pop(s, p) ==
  [s EXCEPT !.procs[p].stack = SubSeq(@, 1, Len(@) - 1)]

SetTopPc(s, p, pc) ==
  [s EXCEPT !.procs[p].stack[Len(s.procs[p].stack)].pc = pc]

\* An async function called by p has settled its promise with r.  The caller
\* is the top frame of p and awaits that promise: its continuation is queued.
\* With no caller the request is over: its slot is free again.
Deliver(s, p, r) ==
  IF s.procs[p].stack = <<>>
    THEN LET pr == s.procs[p]
         IN [s EXCEPT !.procs[p] = IdleProc,
                      !.done = [id |-> pr.id, op |-> pr.op, arg |-> pr.arg,
                                session |-> pr.session, who |-> pr.who,
                                ticket |-> pr.ticket, action |-> pr.action,
                                flagOk |-> pr.flagOk, prev |-> pr.prev,
                                joined |-> pr.joined, att |-> pr.att,
                                res |-> r, snap |-> s.cached,
                                status |-> NoStatus, body |-> pr.body,
                                out |-> pr.out]]
    ELSE [s EXCEPT !.procs[p].res = r, !.mq = Append(@, p)]

Return(s, p, r) == Deliver(Pop(s, p), p, r)

\* `await promise` on attempt a: resume in a later microtask once it settles.
Await(s, p, a) ==
  IF Settled(s.attempts[a])
    THEN [s EXCEPT !.mq = Append(@, p)]
    ELSE [s EXCEPT !.attempts[a].waiters = Append(@, p)]

\* connectWithFailover that requires the URI of the preferred target only.
ConnectWithFailoverStartPreferredOnly(s) ==
  LET n == Len(s.attempts) + 1
      configured == uri[RoleOf(s.env)]
      att == [useSecondary |-> s.env,
              pc |-> IF configured THEN "connect1" ELSE "rejected",
              calls |-> <<>>, waiters |-> <<>>, target |-> "none",
              sawUp |-> FALSE]
  IN [s EXCEPT !.attempts = Append(@, att), !.cached.promise = n]

\* connectWithFailover(), up to its first await (lines 43-66).
ConnectWithFailoverStart(s) ==
  LET n == Len(s.attempts) + 1
      configured == uri["primary"] /\ uri["secondary"]
      att == [useSecondary |-> s.env,
              pc |-> IF configured THEN "connect1" ELSE "rejected",
              calls |-> <<>>, waiters |-> <<>>, target |-> "none",
              sawUp |-> FALSE]
  IN [s EXCEPT !.attempts = Append(@, att), !.cached.promise = n]

\* dbConnect that awaits cached.promise even with a connection cached.
DbConnectCallAlwaysAwaits(s, p) ==
  LET s1 == IF s.cached.promise = 0 THEN ConnectWithFailoverStart(s) ELSE s
      a == s1.cached.promise
  IN Await(Push([s1 EXCEPT !.procs[p].att = a], p,
                Frame("dbConnect", "await", FALSE, a)), p, a)

\* dbConnect(), up to its await (lines 19-31).
DbConnectCall(s, p) ==
  IF s.cached.conn # NoConn
    THEN Deliver(s, p, Ok(s.cached.conn))
    ELSE LET s1 == IF s.cached.promise = 0 THEN ConnectWithFailoverStart(s)
                   ELSE s
             a == s1.cached.promise
         IN Await(Push([s1 EXCEPT !.procs[p].att = a], p,
                       Frame("dbConnect", "await", FALSE, a)), p, a)

\* dbConnect whose catch block leaves cached.promise set.
DbConnectResumeKeepsPromise(s, p) ==
  LET a == Top(s, p).att
  IN IF s.attempts[a].pc = "resolved"
       THEN Return([s EXCEPT !.cached.conn = a], p, Ok(a))
       ELSE Return(s, p, Err)

\* dbConnect whose catch block clears the marker but does not rethrow.
DbConnectResumeSwallows(s, p) ==
  LET a == Top(s, p).att
  IN IF s.attempts[a].pc = "resolved"
       THEN Return([s EXCEPT !.cached.conn = a], p, Ok(a))
       ELSE Return([s EXCEPT !.cached.promise = 0], p, Ok(NoConn))

\* dbConnect() after its await (lines 31-37).
DbConnectResume(s, p) ==
  LET a == Top(s, p).att
  IN IF s.attempts[a].pc = "resolved"
       THEN Return([s EXCEPT !.cached.conn = a], p, Ok(a))
       ELSE Return([s EXCEPT !.cached.promise = 0], p, Err)

\* dbDisconnect(), up to its await (lines 163-165).
DbDisconnectCall(s, p) ==
  IF s.cached.conn # NoConn
    THEN Push([s EXCEPT !.mongo = "none"], p,
              Frame("dbDisconnect", "disconnecting", FALSE, 0))
    ELSE Deliver(s, p, Ok(0))

\* dbDisconnect() after mongoose.disconnect() (lines 166-169).
DbDisconnectResume(s, p) ==
  Return([s EXCEPT !.cached = EmptyCache], p, Ok(0))

\* switchDatabase(useSecondary), up to `await dbDisconnect()` (lines 112-116).
SwitchDatabaseCall(s, p, useSecondary) ==
  DbDisconnectCall(
    Push(s, p, Frame("switchDatabase", "awaitDisconnect", useSecondary, 0)), p)

\* switchDatabase after dbDisconnect: set the env, call dbConnect (119-122).
SwitchDatabaseReconnect(s, p) ==
  LET u == Top(s, p).useSec
  IN DbConnectCall([SetTopPc(s, p, "awaitConnect") EXCEPT !.env = u], p)

\* switchDatabase that puts the preference back when the reconnect fails.
SwitchDatabaseResumeReverts(s, p) ==
  IF s.procs[p].res.ok
    THEN Return(s, p, s.procs[p].res)
    ELSE Return([s EXCEPT !.env = ~Top(s, p).useSec], p, s.procs[p].res)

\* switchDatabase after dbConnect: `return await` passes the outcome on.
SwitchDatabaseResume(s, p) == Return(s, p, s.procs[p].res)

\* getConnectionStatus that reports the preferred role.
GetConnectionStatusPreferred(s) ==
  [isConnected |-> s.mongo # "none", currentDatabase |-> RoleOf(s.env)]

\* getConnectionStatus() (lines 94-107).  cached.currentDb is never the empty
\* string, so the `||` alternative of line 98 is never taken.
GetConnectionStatus(s) ==
  [isConnected |-> s.mongo # "none", currentDatabase |-> s.cached.currentDb]

\* createAuditLog(data), up to `await dbConnect()` (audit.ts lines 1382-1384).
CreateAuditLogCall(s, p, data) ==
  DbConnectCall(
    Push(s, p, [Frame("createAuditLog", "awaitConnect", FALSE, 0)
                  EXCEPT !.data = data]), p)

\* createAuditLog after dbConnect: a failure is caught and logged; otherwise
\* the entry is built and saved.  With bufferCommands off, save() on a closed
\* connection rejects at once.
CreateAuditLogSave(s, p) ==
  IF ~s.procs[p].res.ok
    THEN Return(s, p, Ok(0))
    ELSE IF s.mongo = "none"
           THEN [SetTopPc(s, p, "saveRejected") EXCEPT !.mq = Append(@, p)]
           ELSE SetTopPc(s, p, "saving")

\* createAuditLog after a rejected save: caught, logged, nothing thrown.
CreateAuditLogCatch(s, p) == Return(s, p, Ok(0))

\* createAuditLog that lets a failed save reach its caller.
CreateAuditLogSavedThrows(s, p, ok) ==
  LET stored == ok /\ s.mongo # "none"
      doc == [db |-> s.mongo, req |-> s.procs[p].id, data |-> Top(s, p).data]
  IN IF stored
       THEN Return([s EXCEPT !.auditLog = Append(@, doc)], p, Ok(0))
       ELSE Return(s, p, Err)

\* createAuditLog that overwrites the trail with its entry.
CreateAuditLogSavedReplaces(s, p, ok) ==
  LET stored == ok /\ s.mongo # "none"
      doc == [db |-> s.mongo, req |-> s.procs[p].id, data |-> Top(s, p).data]
  IN Return([s EXCEPT !.auditLog = IF stored THEN <<doc>> ELSE @], p, Ok(0))

\* auditEntry.save() completes: the document is stored in the database the
\* connection is open to, if that database can still be reached (ok).
CreateAuditLogSaved(s, p, ok) ==
  LET stored == ok /\ s.mongo # "none"
      doc == [db |-> s.mongo, req |-> s.procs[p].id, data |-> Top(s, p).data]
  IN Return([s EXCEPT !.auditLog = IF stored THEN Append(@, doc) ELSE @],
            p, Ok(0))

\* testDatabaseConnection(useSecondary), up to `await asPromise()`
\* (lines 128-148).  Missing URIs throw before the try block.
TestDatabaseConnectionCall(s, p, useSecondary) ==
  IF ~(uri["primary"] /\ uri["secondary"])
    THEN Deliver(s, p, Err)
    ELSE Push(s, p, Frame("testDatabaseConnection", "asPromise",
                          useSecondary, 0))

\* A probe that opens its connection as the default mongoose connection.
TestDatabaseConnectionOpenedOnDefault(s, p, ok) ==
  IF ok
    THEN [SetTopPc(s, p, "close")
            EXCEPT !.probes = @ + 1, !.mongo = RoleOf(Top(s, p).useSec),
                   !.cached.currentDb = RoleOf(Top(s, p).useSec)]
    ELSE Return(s, p, Ok(0))

\* A probe that reports success without closing its connection.
TestDatabaseConnectionOpenedNoClose(s, p, ok) ==
  IF ok
    THEN Return([s EXCEPT !.probes = @ + 1], p, Ok(1))
    ELSE Return(s, p, Ok(0))

\* asPromise() settles: an open connection goes on to close(), a failure is
\* returned as { success: false } (lines 148-156).
TestDatabaseConnectionOpened(s, p, ok) ==
  IF ok
    THEN [SetTopPc(s, p, "close") EXCEPT !.probes = @ + 1]
    ELSE Return(s, p, Ok(0))

\* close() completes: { success: true } (lines 149-150).
TestDatabaseConnectionClosed(s, p) ==
  Return([s EXCEPT !.probes = @ - 1], p, Ok(1))

\* The switch action without the already-connected check.
PostSwitchAlways(s, p, useSecondary) ==
  SwitchDatabaseCall(
    Push(s, p, [Frame("POST", "awaitSwitch", useSecondary, 0)
                  EXCEPT !.prev = s.cached.currentDb]),
    p, useSecondary)

\* POST /api/admin/database, action 'switch' (route lines 574-587).
PostSwitch(s, p, useSecondary) ==
  LET currentStatus == GetConnectionStatus(s)
      targetDb == RoleOf(useSecondary)
  IN IF currentStatus.currentDatabase = targetDb
       THEN Deliver(s, p, Code(200))
       ELSE SwitchDatabaseCall(
              Push(s, p, [Frame("POST", "awaitSwitch", useSecondary, 0)
                            EXCEPT !.prev = currentStatus.currentDatabase]),
              p, useSecondary)

\* POST /api/admin/database, action 'test' (route lines 561-563).
PostTest(s, p, useSecondary) ==
  TestDatabaseConnectionCall(
    Push(s, p, Frame("POST", "awaitTest", useSecondary, 0)), p, useSecondary)

\* The route validating the body before it looks at the session's role.
PostCallValidatesFirst(s, p, session, action, flagOk, useSecondary) ==
  CASE session = "none" -> Deliver(s, p, Code(401))
    [] session # "none" /\ (action = "missing" \/ ~flagOk) ->
         Deliver(s, p, Code(400))
    [] session = "user" /\ action # "missing" /\ flagOk ->
         Deliver(s, p, Code(403))
    [] session = "admin" /\ flagOk /\ action = "test" ->
         PostTest(s, p, useSecondary)
    [] session = "admin" /\ flagOk /\ action = "switch" ->
         PostSwitch(s, p, useSecondary)
    [] session = "admin" /\ flagOk /\ action = "other" ->
         Deliver(s, p, Code(400))

\* POST /api/admin/database from the session check to the first await that
\* touches the connection manager (route lines 537-587, 616-621).
PostCall(s, p, session, action, flagOk, useSecondary) ==
  CASE session = "none" -> Deliver(s, p, Code(401))
    [] session = "user" -> Deliver(s, p, Code(403))
    [] session = "admin" /\ (action = "missing" \/ ~flagOk) ->
         Deliver(s, p, Code(400))
    [] session = "admin" /\ flagOk /\ action = "test" ->
         PostTest(s, p, useSecondary)
    [] session = "admin" /\ flagOk /\ action = "switch" ->
         PostSwitch(s, p, useSecondary)
    [] session = "admin" /\ flagOk /\ action = "other" ->
         Deliver(s, p, Code(400))

\* POST after `await switchDatabase(...)` (route lines 587-608): one audit
\* entry for the success, or, in the catch block, one for the failure.
PostAfterSwitch(s, p) ==
  LET f == Top(s, p)
  IN IF s.procs[p].res.ok
       THEN CreateAuditLogCall(SetTopPc(s, p, "awaitAuditOk"), p,
              [kind |-> "switch", from |-> f.prev,
               to |-> GetConnectionStatus(s).currentDatabase,
               outcome |-> "success"])
       ELSE CreateAuditLogCall(SetTopPc(s, p, "awaitAuditFail"), p,
              [kind |-> "switch", from |-> "absent",
               to |-> RoleOf(f.useSec), outcome |-> "failed"])

\* POST after `await testDatabaseConnection(...)` (route lines 563-570); a
\* throw lands in the outer catch (lines 623-629).
PostAfterTest(s, p) ==
  LET f == Top(s, p)
  IN IF s.procs[p].res.ok
       THEN CreateAuditLogCall(SetTopPc(s, p, "awaitAuditTest"), p,
              [kind |-> "test", from |-> "absent", to |-> RoleOf(f.useSec),
               outcome |-> IF s.procs[p].res.val = 1 THEN "success"
                           ELSE "failed"])
       ELSE Return(s, p, Code(500))

\* POST after `await createAuditLog(...)`: the response (572, 597, 610).  A
\* throw in the try block of the switch lands in its catch block (601-613),
\* any other throw in the outer catch (623-629).
PostRespond(s, p) ==
  LET f == Top(s, p)
  IN IF s.procs[p].res.ok
       THEN Return(s, p, IF f.pc = "awaitAuditFail" THEN Code(500)
                         ELSE Code(200))
       ELSE IF f.pc = "awaitAuditOk"
              THEN CreateAuditLogCall(SetTopPc(s, p, "awaitAuditFail"), p,
                     [kind |-> "switch", from |-> "absent",
                      to |-> RoleOf(f.useSec), outcome |-> "failed"])
              ELSE Return(s, p, Code(500))

\* DELETE /api/tickets/[id], up to `await dbConnect()` (lines 815-826).
DeleteCall(s, p, session) ==
  IF session = "none"
    THEN Deliver(s, p, Code(401))
    ELSE DbConnectCall(Push(s, p, Frame("DELETE", "awaitConnect", FALSE, 0)),
                       p)

\* DELETE after dbConnect: a failure lands in the catch block (862-868);
\* otherwise `await params` (line 829), resolved already.
DeleteAfterConnect(s, p) ==
  IF ~s.procs[p].res.ok
    THEN Return(s, p, Code(500))
    ELSE [SetTopPc(s, p, "awaitParams") EXCEPT !.mq = Append(@, p)]

\* DELETE issues Ticket.findById (line 832).  With bufferCommands off, a
\* query on a closed connection rejects at once.
DeleteFind(s, p) ==
  IF s.mongo = "none"
    THEN [SetTopPc(s, p, "rejected") EXCEPT !.mq = Append(@, p)]
    ELSE SetTopPc(s, p, "finding")

\* DELETE after a rejected query: the catch block (lines 862-868).
DeleteCatch(s, p) == Return(s, p, Code(500))

\* Ticket.findById completes (lines 832-847): 404 for no ticket, 403 for
\* another user's ticket unless the caller is an admin, otherwise
\* Ticket.findByIdAndDelete is issued.
DeleteFound(s, p, ok) ==
  LET pr == s.procs[p]
  IN IF ~ok \/ s.mongo = "none"
       THEN Return(s, p, Code(500))
       ELSE LET userId == s.tickets[s.mongo][pr.ticket]
            IN IF userId = "none"
                 THEN Return(s, p, Code(404))
                 ELSE IF pr.session # "admin" /\ userId # pr.who
                        THEN Return(s, p, Code(403))
                        ELSE SetTopPc(s, p, "deleting")

\* Ticket.findByIdAndDelete completes (lines 847-856): the ticket is gone
\* from the database the connection is open to, and the audit entry is
\* written.
DeleteDeleted(s, p, ok) ==
  IF ~ok \/ s.mongo = "none"
    THEN Return(s, p, Code(500))
    ELSE CreateAuditLogCall(
           [SetTopPc(s, p, "awaitAudit")
              EXCEPT !.tickets[s.mongo][s.procs[p].ticket] = "none"],
           p, [kind |-> "delete_ticket", from |-> "absent", to |-> "absent",
               outcome |-> "success"])

\* DELETE after `await createAuditLog(...)`: the response (lines 858-860).
DeleteRespond(s, p) ==
  IF s.procs[p].res.ok
    THEN Return(s, p, Code(200))
    ELSE Return(s, p, Code(500))

\* The handlers of one ticket after `await dbConnect()`: a failure lands in
\* the catch block; otherwise `await params`, resolved already.
TicketAfterConnect(s, p) ==
  IF ~s.procs[p].res.ok
    THEN Return(s, p, Code(500))
    ELSE [SetTopPc(s, p, "awaitParams") EXCEPT !.mq = Append(@, p)]

\* The handlers of one ticket issue Ticket.findById.  With bufferCommands
\* off, a query on a closed connection rejects at once.
TicketFind(s, p) ==
  IF s.mongo = "none"
    THEN [SetTopPc(s, p, "rejected") EXCEPT !.mq = Append(@, p)]
    ELSE SetTopPc(s, p, "finding")

\* The catch block of a ticket handler.
TicketCatch(s, p) == Return(s, p, Code(500))

\* A database call of a ticket handler that cannot complete: the call
\* failed, or the connection it was issued on has been closed.
Failed(s, ok) == ~ok \/ s.mongo = "none"

\* What Ticket.findById(id) finds on the open connection: the ticket's
\* userId, or none for an id that is not stored.
Owner(s, id) ==
  IF id \in TicketIds THEN s.tickets[s.mongo][id] ELSE "none"

ValidStatus == {"open", "closed"}
ValidPriority == {"low", "medium", "high", "urgent"}
ValidCategory ==
  {"technical", "billing", "general", "feature_request", "bug_report"}

\* PUT /api/tickets/[id], up to `await dbConnect()` (lines 679-722).
PutCall(s, p, session, body) ==
  IF session = "none"
    THEN Deliver(s, p, Code(401))
    ELSE IF \/ body.status # "" /\ body.status \notin ValidStatus
            \/ body.priority # "" /\ body.priority \notin ValidPriority
            \/ body.category # "" /\ body.category \notin ValidCategory
            \/ body.status = "" /\ body.priority = "" /\ body.category = ""
           THEN Deliver(s, p, Code(400))
           ELSE DbConnectCall(
                  Push(s, p, Frame("PUT", "awaitConnect", FALSE, 0)), p)

\* The changes a PUT body makes to a ticket document (lines 739-767).
Change(doc, body, field) ==
  IF body[field] # "" /\ body[field] # doc[field]
    THEN <<[field |-> field, oldValue |-> doc[field],
            newValue |-> body[field]]>>
    ELSE <<>>

Changes(doc, body) ==
  Change(doc, body, "status") \o Change(doc, body, "priority")
    \o Change(doc, body, "category")

\* PUT that lets the ticket's owner update it.
PutFoundOwnerAllowed(s, p, ok) ==
  LET pr == s.procs[p]
  IN IF Failed(s, ok)
       THEN Return(s, p, Code(500))
       ELSE IF Owner(s, pr.ticket) = "none"
              THEN Return(s, p, Code(404))
              ELSE IF pr.session # "admin"
                      /\ Owner(s, pr.ticket) # pr.who
                     THEN Return(s, p, Code(403))
                     ELSE LET changes ==
                                Changes(s.ticketFields[s.mongo][pr.ticket],
                                        pr.body)
                              u == [s EXCEPT
                                      !.procs[p].changes = changes,
                                      !.procs[p].out.changes = Len(changes)]
                          IN IF changes = <<>>
                               THEN Return(u, p, Code(200))
                               ELSE SetTopPc(u, p, "savingTicket")

\* Ticket.findById of a PUT completes (lines 727-771): 404 for no ticket,
\* 403 unless the caller is an admin; the changes are listed and, if there
\* are any, ticket.save() is issued.
PutFound(s, p, ok) ==
  LET pr == s.procs[p]
  IN IF Failed(s, ok)
       THEN Return(s, p, Code(500))
       ELSE IF Owner(s, pr.ticket) = "none"
              THEN Return(s, p, Code(404))
              ELSE IF pr.session # "admin"
                     THEN Return(s, p, Code(403))
                     ELSE LET changes ==
                                Changes(s.ticketFields[s.mongo][pr.ticket],
                                        pr.body)
                              u == [s EXCEPT
                                      !.procs[p].changes = changes,
                                      !.procs[p].out.changes = Len(changes)]
                          IN IF changes = <<>>
                               THEN Return(u, p, Code(200))
                               ELSE SetTopPc(u, p, "savingTicket")

\* The fields of a ticket after the listed changes are written.
Apply(fields, changes) ==
  [f \in DOMAIN fields |->
     IF \E i \in DOMAIN changes : changes[i].field = f
       THEN (CHOOSE c \in {changes[i] : i \in DOMAIN changes} :
               c.field = f).newValue
       ELSE fields[f]]

\* ticket.save() of a PUT completes (lines 771-787): the modified fields are
\* written to the ticket in the database the connection is open to (a
\* ticket deleted meanwhile makes save() reject), and the first
\* history.save() is issued.
PutTicketSaved(s, p, ok) ==
  LET pr == s.procs[p]
  IN IF Failed(s, ok) \/ Owner(s, pr.ticket) = "none"
       THEN Return(s, p, Code(500))
       ELSE [SetTopPc(s, p, "savingHistory")
               EXCEPT !.ticketFields[s.mongo][pr.ticket] =
                        Apply(@, pr.changes)]

\* `${change.field}_changed` (line 780).
ChangedAction(field) ==
  CASE field = "status" -> "status_changed"
    [] field = "priority" -> "priority_changed"
    [] field = "category" -> "category_changed"

\* The TicketHistory document of one change (lines 775-785).
HistoryEntry(s, p, action, change) ==
  [db |-> s.mongo, req |-> s.procs[p].id, ticketId |-> s.procs[p].ticket,
   userId |-> s.procs[p].who, action |-> action, field |-> change.field,
   oldValue |-> change.oldValue, newValue |-> change.newValue]

\* history.save() of a PUT completes (lines 774-797): the entry of the
\* change is stored and the next one is saved; after the last one the audit
\* entry is written.
PutHistorySaved(s, p, ok) ==
  LET pr == s.procs[p]
      change == Head(pr.changes)
      u == [s EXCEPT !.history =
                       Append(@, HistoryEntry(s, p, ChangedAction(change.field),
                                              change)),
                     !.procs[p].changes = Tail(@)]
  IN IF Failed(s, ok)
       THEN Return(s, p, Code(500))
       ELSE IF Tail(pr.changes) # <<>>
              THEN u
              ELSE CreateAuditLogCall(
                     SetTopPc(u, p, "awaitAudit"), p,
                     [kind |-> "update_ticket", from |-> "absent",
                      to |-> "absent", outcome |-> "success"])

\* PUT after `await createAuditLog(...)`: the response (lines 799-803).
PutRespond(s, p) ==
  IF s.procs[p].res.ok
    THEN Return(s, p, Code(200))
    ELSE Return(s, p, Code(500))

\* The GET handlers of one ticket: /api/tickets/[id] and its comments and
\* history, up to `await dbConnect()`.
GetCall(s, p, session, fn) ==
  IF session = "none"
    THEN Deliver(s, p, Code(401))
    ELSE DbConnectCall(Push(s, p, Frame(fn, "awaitConnect", FALSE, 0)), p)

\* GET of one ticket that skips the ownership check.
GetFoundAnyOwner(s, p, ok) ==
  LET pr == s.procs[p]
      userId == Owner(s, pr.ticket)
      u == [s EXCEPT !.procs[p].seen = {userId}]
  IN IF Failed(s, ok)
       THEN Return(s, p, Code(500))
       ELSE IF userId = "none"
              THEN Return(s, p, Code(404))
              ELSE IF Top(s, p).fn = "GET ticket"
                     THEN Return([u EXCEPT !.procs[p].out.owners = {userId}],
                                 p, Code(200))
                     ELSE SetTopPc(u, p, "querying")

\* Ticket.findById of a GET completes: 404 for no ticket, 403 for another
\* user's ticket unless the caller is an admin; the ticket is returned, or
\* its comments or history are queried.
GetFound(s, p, ok) ==
  LET pr == s.procs[p]
      userId == Owner(s, pr.ticket)
      u == [s EXCEPT !.procs[p].seen = {userId}]
  IN IF Failed(s, ok)
       THEN Return(s, p, Code(500))
       ELSE IF userId = "none"
              THEN Return(s, p, Code(404))
              ELSE IF pr.session # "admin" /\ userId # pr.who
                     THEN Return(s, p, Code(403))
                     ELSE IF Top(s, p).fn = "GET ticket"
                            THEN Return(
                                   [u EXCEPT !.procs[p].out.owners = {userId}],
                                   p, Code(200))
                            ELSE SetTopPc(u, p, "querying")

\* Comment.find / TicketHistory.find of a GET completes: the documents of
\* the ticket are returned.
GetQueried(s, p, ok) ==
  IF Failed(s, ok)
    THEN Return(s, p, Code(500))
    ELSE Return([s EXCEPT !.procs[p].out.owners = s.procs[p].seen], p,
                Code(200))

\* GET /api/tickets, up to `await dbConnect()` (lines 311-319).
ListCall(s, p, session) ==
  IF session = "none"
    THEN Deliver(s, p, Code(401))
    ELSE DbConnectCall(
           Push(s, p, Frame("GET tickets", "awaitConnect", FALSE, 0)), p)

\* GET /api/tickets after dbConnect: the query is built and issued
\* (lines 321-368).
ListQuery(s, p) ==
  IF ~s.procs[p].res.ok
    THEN Return(s, p, Code(500))
    ELSE IF s.mongo = "none"
           THEN [SetTopPc(s, p, "rejected") EXCEPT !.mq = Append(@, p)]
           ELSE SetTopPc(s, p, "listing")

\* The tickets a list query matches (lines 333-352): a non-admin's query
\* names the caller's userId, and the status filter applies unless 'all'.
Matching(s, session, who, status) ==
  {t \in TicketIds :
     /\ s.tickets[s.mongo][t] # "none"
     /\ session = "admin" \/ s.tickets[s.mongo][t] = who
     /\ status \in {"", "all"} \/ s.ticketFields[s.mongo][t].status = status}

\* Ticket.find and countDocuments complete (lines 362-371): getTicketStats
\* is called.
ListQueried(s, p, ok) ==
  LET pr == s.procs[p]
      found == Matching(s, pr.session, pr.who, pr.body.status)
  IN IF Failed(s, ok)
       THEN Return(s, p, Code(500))
       ELSE [SetTopPc(s, p, "stats")
               EXCEPT !.procs[p].seen = {s.tickets[s.mongo][t] : t \in found}]

\* getTicketStats completes (lines 371-380): the audit entry is written.
ListCounted(s, p, ok) ==
  IF Failed(s, ok)
    THEN Return(s, p, Code(500))
    ELSE CreateAuditLogCall(
           SetTopPc(s, p, "awaitAudit"), p,
           [kind |-> "view_tickets", from |-> "absent", to |-> "absent",
            outcome |-> "success"])

\* GET /api/tickets after `await createAuditLog(...)`: the response
\* (lines 382-393).
ListRespond(s, p) ==
  IF s.procs[p].res.ok
    THEN Return([s EXCEPT !.procs[p].out.owners = s.procs[p].seen], p,
                Code(200))
    ELSE Return(s, p, Code(500))

\* POST /api/tickets/[id]/comments, up to `await dbConnect()`
\* (lines 100-127).  content is "" for none or blank, "long" for more than
\* 1000 characters.
CommentCall(s, p, session, content) ==
  IF session = "none"
    THEN Deliver(s, p, Code(401))
    ELSE IF content \in {"", "long"}
           THEN Deliver(s, p, Code(400))
           ELSE DbConnectCall(
                  Push(s, p, Frame("POST comment", "awaitConnect", FALSE, 0)),
                  p)

\* Ticket.findById of a comment POST completes (lines 131-150): 404, 403,
\* or comment.save() is issued.
CommentFound(s, p, ok) ==
  LET pr == s.procs[p]
      userId == Owner(s, pr.ticket)
  IN IF Failed(s, ok)
       THEN Return(s, p, Code(500))
       ELSE IF userId = "none"
              THEN Return(s, p, Code(404))
              ELSE IF pr.session # "admin" /\ userId # pr.who
                     THEN Return(s, p, Code(403))
                     ELSE SetTopPc(s, p, "savingComment")

\* comment.save() completes (lines 150-162): the comment is stored and
\* history.save() is issued.
CommentSaved(s, p, ok) ==
  LET pr == s.procs[p]
      doc == [db |-> s.mongo, req |-> pr.id, ticketId |-> pr.ticket,
              userId |-> pr.who]
  IN IF Failed(s, ok)
       THEN Return(s, p, Code(500))
       ELSE [SetTopPc(s, p, "savingHistory")
               EXCEPT !.comments = Append(@, doc)]

\* history.save() of a comment POST completes (lines 162-171): the
\* 'commented' entry is stored and the audit entry is written.
CommentHistorySaved(s, p, ok) ==
  LET entry == HistoryEntry(s, p, "commented",
                            [field |-> "", oldValue |-> "", newValue |-> ""])
  IN IF Failed(s, ok)
       THEN Return(s, p, Code(500))
       ELSE CreateAuditLogCall(
              [SetTopPc(s, p, "awaitAudit")
                 EXCEPT !.history = Append(@, entry)],
              p, [kind |-> "create_ticket", from |-> "absent",
                  to |-> "absent", outcome |-> "success"])

\* POST comment after `await createAuditLog(...)`: 201 (lines 173-176).
CommentRespond(s, p) ==
  IF s.procs[p].res.ok
    THEN Return(s, p, Code(201))
    ELSE Return(s, p, Code(500))

----------------------------------------------------------------------------
TypeOK ==
  /\ cached.conn \in 0..Len(attempts)
  /\ cached.promise \in 0..Len(attempts)
  /\ cached.currentDb \in Roles \cup {"none"}
  /\ useSecondaryDb \in BOOLEAN
  /\ ops \in Nat

Init ==
  /\ cached = EmptyCache
  /\ useSecondaryDb \in BOOLEAN
  /\ uri \in [Roles -> BOOLEAN]
  /\ attempts = <<>>
  /\ procs = [p \in Procs |-> IdleProc]
  /\ mq = <<>>
  /\ mongo = "none"
  /\ probes = 0
  /\ auditLog = <<>>
  /\ tickets = [r \in Roles |-> [t \in TicketIds |-> "u1"]]
  /\ ticketFields = [r \in Roles |-> [t \in TicketIds |-> NewFields]]
  /\ comments = <<>>
  /\ history = <<>>
  /\ done = NoneDone
  /\ ops = 0

\* A request can start, and an I/O call can complete, only between tasks.
Quiet == mq = <<>>

\* Free slots are interchangeable: a new request takes the lowest one.  max
\* bounds the number of requests of a behaviour.
CanStart(p, max) ==
  /\ Quiet
  /\ ops < max
  /\ procs[p].status = "idle"
  /\ \A q \in Procs : q < p => procs[q].status = "running"

\* The attempt a request would join: the one recorded in flight with no
\* connection cached.
InFlight ==
  IF cached.conn = NoConn /\ cached.promise # 0
     /\ ~Settled(attempts[cached.promise])
    THEN cached.promise ELSE 0

Begin(p, op, arg) ==
  [Cur EXCEPT !.procs[p] = [IdleProc EXCEPT !.status = "running",
                                            !.id = ops + 1, !.op = op,
                                            !.arg = arg, !.joined = InFlight,
                                            !.prev = cached.currentDb]]

StartDbConnect(p, max) ==
  /\ CanStart(p, max)
  /\ Install(DbConnectCall(Begin(p, "dbConnect", FALSE), p))
  /\ ops' = ops + 1
  /\ UNCHANGED uri

StartDbDisconnect(p, max) ==
  /\ CanStart(p, max)
  /\ Install(DbDisconnectCall(Begin(p, "dbDisconnect", FALSE), p))
  /\ ops' = ops + 1
  /\ UNCHANGED uri

StartSwitchDatabase(p, useSecondary, max) ==
  /\ CanStart(p, max)
  /\ Install(SwitchDatabaseCall(Begin(p, "switchDatabase", useSecondary), p,
                                useSecondary))
  /\ ops' = ops + 1
  /\ UNCHANGED uri

StartTestDatabaseConnection(p, useSecondary, max) ==
  /\ CanStart(p, max)
  /\ Install(TestDatabaseConnectionCall(
               Begin(p, "testDatabaseConnection", useSecondary), p,
               useSecondary))
  /\ ops' = ops + 1
  /\ UNCHANGED uri

\* A call of getConnectionStatus(): synchronous, it returns in its own step.
StartGetConnectionStatus(p, max) ==
  /\ CanStart(p, max)
  /\ Install([Cur EXCEPT !.done =
                 [NoneDone EXCEPT !.id = ops + 1,
                                  !.op = "getConnectionStatus",
                                  !.prev = cached.currentDb,
                                  !.joined = InFlight,
                                  !.res = Ok(0),
                                  !.snap = cached,
                                  !.status = GetConnectionStatus(Cur)]])
  /\ ops' = ops + 1
  /\ UNCHANGED uri

Sessions == {"none", "user", "admin"}
Actions == {"missing", "test", "switch", "other"}

StartPost(p, session, action, flagOk, useSecondary, max) ==
  /\ CanStart(p, max)
  /\ Install(PostCall([Begin(p, "POST", useSecondary)
                        EXCEPT !.procs[p].session = session,
                               !.procs[p].action = action,
                               !.procs[p].flagOk = flagOk],
                      p, session, action, flagOk, useSecondary))
  /\ ops' = ops + 1
  /\ UNCHANGED uri

\* Who calls the ticket route: nobody, a user, or an admin.
Callers ==
  {[session |-> "none", who |-> "none"], [session |-> "user", who |-> "u1"],
   [session |-> "user", who |-> "u2"], [session |-> "admin", who |-> "a1"]}

StartDelete(p, c, id, max) ==
  /\ CanStart(p, max)
  /\ Install(DeleteCall([Begin(p, "DELETE", FALSE)
                          EXCEPT !.procs[p].session = c.session,
                                 !.procs[p].who = c.who,
                                 !.procs[p].ticket = id],
                        p, c.session))
  /\ ops' = ops + 1
  /\ UNCHANGED uri

\* The ids a ticket request names: the stored tickets and one id that is
\* not stored.
RequestIds == TicketIds \cup {NTickets + 1}

\* The bodies sent to PUT: nothing, a value outside the enum in each field,
\* the stored values again, and one, two and three new values.
PutBodies ==
  {NoBody,
   [NoBody EXCEPT !.status = "bad"],
   [NoBody EXCEPT !.priority = "bad"],
   [NoBody EXCEPT !.category = "bad"],
   [NoBody EXCEPT !.status = "open", !.priority = "medium"],
   [NoBody EXCEPT !.status = "closed"],
   [NoBody EXCEPT !.priority = "high", !.category = "billing"],
   [NoBody EXCEPT !.status = "closed", !.priority = "high",
                  !.category = "billing"]}

StartPut(p, c, id, body, max) ==
  /\ CanStart(p, max)
  /\ Install(PutCall([Begin(p, "PUT", FALSE)
                       EXCEPT !.procs[p].session = c.session,
                              !.procs[p].who = c.who,
                              !.procs[p].ticket = id,
                              !.procs[p].body = body],
                     p, c.session, body))
  /\ ops' = ops + 1
  /\ UNCHANGED uri

GetRoutes == {"GET ticket", "GET comments", "GET history"}

StartGet(p, c, id, fn, max) ==
  /\ CanStart(p, max)
  /\ Install(GetCall([Begin(p, fn, FALSE)
                       EXCEPT !.procs[p].session = c.session,
                              !.procs[p].who = c.who,
                              !.procs[p].ticket = id],
                     p, c.session, fn))
  /\ ops' = ops + 1
  /\ UNCHANGED uri

\* The status filters sent to the list: none, 'all' and a status.
Filters == {"", "all", "closed"}

StartList(p, c, status, max) ==
  /\ CanStart(p, max)
  /\ Install(ListCall([Begin(p, "GET tickets", FALSE)
                        EXCEPT !.procs[p].session = c.session,
                               !.procs[p].who = c.who,
                               !.procs[p].body.status = status],
                      p, c.session))
  /\ ops' = ops + 1
  /\ UNCHANGED uri

Contents == {"", "text", "long"}

StartComment(p, c, id, content, max) ==
  /\ CanStart(p, max)
  /\ Install(CommentCall([Begin(p, "POST comment", FALSE)
                           EXCEPT !.procs[p].session = c.session,
                                  !.procs[p].who = c.who,
                                  !.procs[p].ticket = id,
                                  !.procs[p].body.content = content],
                         p, c.session, content))
  /\ ops' = ops + 1
  /\ UNCHANGED uri

\* The handlers that look one ticket up before they act on it.
TicketRoutes == GetRoutes \cup {"PUT", "POST comment"}

\* The continuation at the head of the microtask queue runs.
Continue(s, p) ==
  LET f == Top(s, p)
  IN CASE f.fn = "dbConnect" -> DbConnectResume(s, p)
       [] f.fn = "switchDatabase" /\ f.pc = "awaitDisconnect" ->
            SwitchDatabaseReconnect(s, p)
       [] f.fn = "switchDatabase" /\ f.pc = "awaitConnect" ->
            SwitchDatabaseResume(s, p)
       [] f.fn = "createAuditLog" /\ f.pc = "awaitConnect" ->
            CreateAuditLogSave(s, p)
       [] f.fn = "createAuditLog" /\ f.pc = "saveRejected" ->
            CreateAuditLogCatch(s, p)
       [] f.fn = "POST" /\ f.pc = "awaitSwitch" -> PostAfterSwitch(s, p)
       [] f.fn = "POST" /\ f.pc = "awaitTest" -> PostAfterTest(s, p)
       [] f.fn = "POST" /\ f.pc \in {"awaitAuditOk", "awaitAuditFail",
                                     "awaitAuditTest"} -> PostRespond(s, p)
       [] f.fn = "DELETE" /\ f.pc = "awaitConnect" ->
            DeleteAfterConnect(s, p)
       [] f.fn = "DELETE" /\ f.pc = "awaitParams" -> DeleteFind(s, p)
       [] f.fn = "DELETE" /\ f.pc = "rejected" -> DeleteCatch(s, p)
       [] f.fn = "DELETE" /\ f.pc = "awaitAudit" -> DeleteRespond(s, p)
       [] f.fn \in TicketRoutes /\ f.pc = "awaitConnect" ->
            TicketAfterConnect(s, p)
       [] f.fn \in TicketRoutes /\ f.pc = "awaitParams" -> TicketFind(s, p)
       [] f.fn \in TicketRoutes /\ f.pc = "rejected" -> TicketCatch(s, p)
       [] f.fn = "PUT" /\ f.pc = "awaitAudit" -> PutRespond(s, p)
       [] f.fn = "POST comment" /\ f.pc = "awaitAudit" ->
            CommentRespond(s, p)
       [] f.fn = "GET tickets" /\ f.pc = "awaitConnect" -> ListQuery(s, p)
       [] f.fn = "GET tickets" /\ f.pc = "rejected" -> TicketCatch(s, p)
       [] f.fn = "GET tickets" /\ f.pc = "awaitAudit" -> ListRespond(s, p)

RunMicrotask ==
  /\ mq # <<>>
  /\ Install(Continue([Cur EXCEPT !.mq = Tail(@)], Head(mq)))
  /\ UNCHANGED <<uri, ops>>

\* Every waiter of a settled attempt is queued, in registration order.
Settle(s, a, pc, target) ==
  [s EXCEPT !.attempts[a].pc = pc, !.attempts[a].target = target,
            !.attempts[a].waiters = <<>>,
            !.mq = @ \o s.attempts[a].waiters]

\* connectWithFailover that gives up after the preferred target.
ConnectWithFailoverResumeNoFallback(s, a, ok) ==
  LET att == s.attempts[a]
      first == att.pc = "connect1"
      target == IF first THEN RoleOf(att.useSecondary) ELSE "secondary"
      called == [s.attempts EXCEPT ![a].calls =
                               Append(@, [target |-> target, ok |-> ok])]
      s1 == [s EXCEPT !.attempts =
               [b \in DOMAIN called |->
                  IF ok /\ ~Settled(called[b])
                    THEN [called[b] EXCEPT !.sawUp = TRUE] ELSE called[b]]]
  IN IF ok
       THEN Settle([s1 EXCEPT !.cached.currentDb = target, !.mongo = target],
                   a, "resolved", target)
       ELSE Settle(s1, a, "rejected", "none")

\* connectWithFailover that falls back whatever the preferred target was.
ConnectWithFailoverResumeAlwaysFallback(s, a, ok) ==
  LET att == s.attempts[a]
      first == att.pc = "connect1"
      target == IF first THEN RoleOf(att.useSecondary) ELSE "secondary"
      called == [s.attempts EXCEPT ![a].calls =
                               Append(@, [target |-> target, ok |-> ok])]
      s1 == [s EXCEPT !.attempts =
               [b \in DOMAIN called |->
                  IF ok /\ ~Settled(called[b])
                    THEN [called[b] EXCEPT !.sawUp = TRUE] ELSE called[b]]]
  IN IF ok
       THEN Settle([s1 EXCEPT !.cached.currentDb = target, !.mongo = target],
                   a, "resolved", target)
       ELSE IF first
              THEN [s1 EXCEPT !.attempts[a].pc = "connect2"]
              ELSE Settle(s1, a, "rejected", "none")

\* mongoose.connect of attempt a completes, with success (ok) if the target
\* can be reached, and connectWithFailover runs on (lines 66-88): success
\* records the role and resolves; a failed primary goes on to the secondary;
\* any other failure rejects.  calls is the record of the establishment
\* calls made, sawUp whether any target was seen up while a was in flight.
ConnectWithFailoverResume(s, a, ok) ==
  LET att == s.attempts[a]
      first == att.pc = "connect1"
      target == IF first THEN RoleOf(att.useSecondary) ELSE "secondary"
      called == [s.attempts EXCEPT ![a].calls =
                               Append(@, [target |-> target, ok |-> ok])]
      s1 == [s EXCEPT !.attempts =
               [b \in DOMAIN called |->
                  IF ok /\ ~Settled(called[b])
                    THEN [called[b] EXCEPT !.sawUp = TRUE] ELSE called[b]]]
  IN IF ok
       THEN Settle([s1 EXCEPT !.cached.currentDb = target, !.mongo = target],
                   a, "resolved", target)
       ELSE IF first /\ ~att.useSecondary
              THEN [s1 EXCEPT !.attempts[a].pc = "connect2"]
              ELSE Settle(s1, a, "rejected", "none")

ConnectDone(a, ok) ==
  /\ Quiet
  /\ attempts[a].pc \in {"connect1", "connect2"}
  /\ Install(ConnectWithFailoverResume(Cur, a, ok))
  /\ UNCHANGED <<uri, ops>>

AtFrame(p, fn, pc) ==
  /\ procs[p].status = "running"
  /\ procs[p].stack # <<>>
  /\ Top(Cur, p).fn = fn
  /\ Top(Cur, p).pc = pc

\* mongoose.disconnect() of a dbDisconnect call completes.
DisconnectDone(p) ==
  /\ Quiet
  /\ AtFrame(p, "dbDisconnect", "disconnecting")
  /\ Install(DbDisconnectResume(Cur, p))
  /\ UNCHANGED <<uri, ops>>

\* auditEntry.save() of a createAuditLog call completes.
SaveDone(p, ok) ==
  /\ Quiet
  /\ AtFrame(p, "createAuditLog", "saving")
  /\ Install(CreateAuditLogSaved(Cur, p, ok))
  /\ UNCHANGED <<uri, ops>>

\* testConnection.asPromise() of a probe settles.
ProbeDone(p, ok) ==
  /\ Quiet
  /\ AtFrame(p, "testDatabaseConnection", "asPromise")
  /\ Install(TestDatabaseConnectionOpened(Cur, p, ok))
  /\ UNCHANGED <<uri, ops>>

\* testConnection.close() of a probe completes.
CloseDone(p) ==
  /\ Quiet
  /\ AtFrame(p, "testDatabaseConnection", "close")
  /\ Install(TestDatabaseConnectionClosed(Cur, p))
  /\ UNCHANGED <<uri, ops>>

\* Ticket.findById of a DELETE completes.
FindDone(p, ok) ==
  /\ Quiet
  /\ AtFrame(p, "DELETE", "finding")
  /\ Install(DeleteFound(Cur, p, ok))
  /\ UNCHANGED <<uri, ops>>

\* Ticket.findByIdAndDelete of a DELETE completes.
DeleteDone(p, ok) ==
  /\ Quiet
  /\ AtFrame(p, "DELETE", "deleting")
  /\ Install(DeleteDeleted(Cur, p, ok))
  /\ UNCHANGED <<uri, ops>>

\* Ticket.findById of a PUT completes.
PutFindDone(p, ok) ==
  /\ Quiet
  /\ AtFrame(p, "PUT", "finding")
  /\ Install(PutFound(Cur, p, ok))
  /\ UNCHANGED <<uri, ops>>

\* ticket.save() of a PUT completes.
PutSaveDone(p, ok) ==
  /\ Quiet
  /\ AtFrame(p, "PUT", "savingTicket")
  /\ Install(PutTicketSaved(Cur, p, ok))
  /\ UNCHANGED <<uri, ops>>

\* history.save() of a PUT completes.
PutHistoryDone(p, ok) ==
  /\ Quiet
  /\ AtFrame(p, "PUT", "savingHistory")
  /\ Install(PutHistorySaved(Cur, p, ok))
  /\ UNCHANGED <<uri, ops>>

\* Ticket.findById of a GET completes.
GetFindDone(p, ok) ==
  /\ Quiet
  /\ \E fn \in GetRoutes : AtFrame(p, fn, "finding")
  /\ Install(GetFound(Cur, p, ok))
  /\ UNCHANGED <<uri, ops>>

\* Comment.find or TicketHistory.find of a GET completes.
GetQueryDone(p, ok) ==
  /\ Quiet
  /\ \E fn \in GetRoutes : AtFrame(p, fn, "querying")
  /\ Install(GetQueried(Cur, p, ok))
  /\ UNCHANGED <<uri, ops>>

\* Ticket.find and countDocuments of the list complete.
ListQueryDone(p, ok) ==
  /\ Quiet
  /\ AtFrame(p, "GET tickets", "listing")
  /\ Install(ListQueried(Cur, p, ok))
  /\ UNCHANGED <<uri, ops>>

\* getTicketStats of the list completes.
ListCountDone(p, ok) ==
  /\ Quiet
  /\ AtFrame(p, "GET tickets", "stats")
  /\ Install(ListCounted(Cur, p, ok))
  /\ UNCHANGED <<uri, ops>>

\* Ticket.findById of a comment POST completes.
CommentFindDone(p, ok) ==
  /\ Quiet
  /\ AtFrame(p, "POST comment", "finding")
  /\ Install(CommentFound(Cur, p, ok))
  /\ UNCHANGED <<uri, ops>>

\* comment.save() completes.
CommentSaveDone(p, ok) ==
  /\ Quiet
  /\ AtFrame(p, "POST comment", "savingComment")
  /\ Install(CommentSaved(Cur, p, ok))
  /\ UNCHANGED <<uri, ops>>

\* history.save() of a comment POST completes.
CommentHistoryDone(p, ok) ==
  /\ Quiet
  /\ AtFrame(p, "POST comment", "savingHistory")
  /\ Install(CommentHistorySaved(Cur, p, ok))
  /\ UNCHANGED <<uri, ops>>

\* The connection manager under direct calls of its three operations.
Next ==
  \/ \E p \in Procs : StartDbConnect(p, MaxOps)
  \/ \E p \in Procs : StartDbDisconnect(p, MaxOps)
  \/ \E p \in Procs, u \in BOOLEAN : StartSwitchDatabase(p, u, MaxOps)
  \/ RunMicrotask
  \/ \E a \in DOMAIN attempts, ok \in BOOLEAN : ConnectDone(a, ok)
  \/ \E p \in Procs : DisconnectDone(p)

Spec == Init /\ [][Next]_vars

\* The admin database route with every request but a probe, next to ordinary
\* requests that call dbConnect.
NextAdmin ==
  \/ \E p \in Procs, s \in Sessions, a \in Actions \ {"test"},
          f, u \in BOOLEAN :
       StartPost(p, s, a, f, u, MaxAdminOps)
  \/ \E p \in Procs : StartDbConnect(p, MaxAdminOps)
  \/ RunMicrotask
  \/ \E a \in DOMAIN attempts, ok \in BOOLEAN : ConnectDone(a, ok)
  \/ \E p \in Procs : DisconnectDone(p)
  \/ \E p \in Procs, ok \in BOOLEAN : SaveDone(p, ok)

SpecAdmin == Init /\ [][NextAdmin]_vars

\* The 'test' action of the admin database route, next to direct calls that
\* connect, disconnect and probe.
NextProbe ==
  \/ \E p \in Procs, u \in BOOLEAN :
       StartPost(p, "admin", "test", TRUE, u, MaxAdminOps)
  \/ \E p \in Procs : StartDbConnect(p, MaxAdminOps)
  \/ \E p \in Procs : StartDbDisconnect(p, MaxAdminOps)
  \/ \E p \in Procs, u \in BOOLEAN :
       StartTestDatabaseConnection(p, u, MaxAdminOps)
  \/ RunMicrotask
  \/ \E a \in DOMAIN attempts, ok \in BOOLEAN : ConnectDone(a, ok)
  \/ \E p \in Procs : DisconnectDone(p)
  \/ \E p \in Procs, ok \in BOOLEAN : SaveDone(p, ok)
  \/ \E p \in Procs, ok \in BOOLEAN : ProbeDone(p, ok)
  \/ \E p \in Procs : CloseDone(p)

SpecProbe == Init /\ [][NextProbe]_vars

\* The connection manager with its status read, with at most RouteSlots
\* calls in progress at a time.
NextStatus ==
  \/ \E p \in 1..RouteSlots : StartDbConnect(p, MaxOps)
  \/ \E p \in 1..RouteSlots : StartDbDisconnect(p, MaxOps)
  \/ \E p \in 1..RouteSlots, u \in BOOLEAN :
       StartSwitchDatabase(p, u, MaxOps)
  \/ \E p \in 1..RouteSlots : StartGetConnectionStatus(p, MaxOps)
  \/ RunMicrotask
  \/ \E a \in DOMAIN attempts, ok \in BOOLEAN : ConnectDone(a, ok)
  \/ \E p \in Procs : DisconnectDone(p)

SpecStatus == Init /\ [][NextStatus]_vars

\* The admin database route with every request, with at most RouteSlots
\* requests in progress at a time.
NextRoute ==
  \/ \E p \in 1..RouteSlots, s \in Sessions, a \in Actions, f, u \in BOOLEAN :
       StartPost(p, s, a, f, u, MaxAdminOps)
  \/ RunMicrotask
  \/ \E a \in DOMAIN attempts, ok \in BOOLEAN : ConnectDone(a, ok)
  \/ \E p \in Procs : DisconnectDone(p)
  \/ \E p \in Procs, ok \in BOOLEAN : SaveDone(p, ok)
  \/ \E p \in Procs, ok \in BOOLEAN : ProbeDone(p, ok)
  \/ \E p \in Procs : CloseDone(p)

SpecRoute == Init /\ [][NextRoute]_vars

\* The ticket route next to management switches, with at most RouteSlots
\* requests in progress at a time.
NextTickets ==
  \/ \E p \in 1..RouteSlots, c \in Callers, id \in TicketIds :
       StartDelete(p, c, id, MaxTicketOps)
  \/ \E p \in 1..RouteSlots, u \in BOOLEAN :
       StartPost(p, "admin", "switch", TRUE, u, MaxTicketOps)
  \/ RunMicrotask
  \/ \E a \in DOMAIN attempts, ok \in BOOLEAN : ConnectDone(a, ok)
  \/ \E p \in Procs : DisconnectDone(p)
  \/ \E p \in Procs, ok \in BOOLEAN : SaveDone(p, ok)
  \/ \E p \in Procs, ok \in BOOLEAN : FindDone(p, ok)
  \/ \E p \in Procs, ok \in BOOLEAN : DeleteDone(p, ok)

SpecTickets == Init /\ [][NextTickets]_vars

\* Ticket updates, with at most RouteSlots requests in progress at a time.
NextUpdate ==
  \/ \E p \in 1..RouteSlots, c \in Callers, id \in RequestIds,
          b \in PutBodies :
       StartPut(p, c, id, b, MaxUpdateOps)
  \/ RunMicrotask
  \/ \E a \in DOMAIN attempts, ok \in BOOLEAN : ConnectDone(a, ok)
  \/ \E p \in Procs, ok \in BOOLEAN : SaveDone(p, ok)
  \/ \E p \in Procs, ok \in BOOLEAN : PutFindDone(p, ok)
  \/ \E p \in Procs, ok \in BOOLEAN : PutSaveDone(p, ok)
  \/ \E p \in Procs, ok \in BOOLEAN : PutHistoryDone(p, ok)

SpecUpdate == Init /\ [][NextUpdate]_vars

\* Every ticket request that checks ownership, from every caller but an
\* admin, with at most RouteSlots requests in progress at a time.
NextAccess ==
  \/ \E p \in 1..RouteSlots, c \in Callers, id \in RequestIds,
          fn \in GetRoutes :
       /\ c.session # "admin"
       /\ StartGet(p, c, id, fn, MaxAccessOps)
  \/ \E p \in 1..RouteSlots, c \in Callers, f \in Filters :
       /\ c.session # "admin"
       /\ StartList(p, c, f, MaxAccessOps)
  \/ \E p \in 1..RouteSlots, c \in Callers, id \in RequestIds,
          x \in Contents :
       /\ c.session # "admin"
       /\ StartComment(p, c, id, x, MaxAccessOps)
  \/ \E p \in 1..RouteSlots, c \in Callers, id \in TicketIds :
       /\ c.session # "admin"
       /\ StartDelete(p, c, id, MaxAccessOps)
  \/ RunMicrotask
  \/ \E a \in DOMAIN attempts, ok \in BOOLEAN : ConnectDone(a, ok)
  \/ \E p \in Procs, ok \in BOOLEAN : SaveDone(p, ok)
  \/ \E p \in Procs, ok \in BOOLEAN : FindDone(p, ok)
  \/ \E p \in Procs, ok \in BOOLEAN : DeleteDone(p, ok)
  \/ \E p \in Procs, ok \in BOOLEAN : GetFindDone(p, ok)
  \/ \E p \in Procs, ok \in BOOLEAN : GetQueryDone(p, ok)
  \/ \E p \in Procs, ok \in BOOLEAN : ListQueryDone(p, ok)
  \/ \E p \in Procs, ok \in BOOLEAN : ListCountDone(p, ok)
  \/ \E p \in Procs, ok \in BOOLEAN : CommentFindDone(p, ok)
  \/ \E p \in Procs, ok \in BOOLEAN : CommentSaveDone(p, ok)
  \/ \E p \in Procs, ok \in BOOLEAN : CommentHistoryDone(p, ok)

SpecAccess == Init /\ [][NextAccess]_vars

\* Comments by a ticket's owner, deletions by an admin and management
\* switches to the secondary, with at most RouteSlots requests in progress
\* at a time.
NextThread ==
  \/ \E p \in 1..RouteSlots, c \in Callers, id \in TicketIds :
       /\ c.who = "u1"
       /\ StartComment(p, c, id, "text", MaxTicketOps)
  \/ \E p \in 1..RouteSlots, c \in Callers, id \in TicketIds :
       /\ c.who = "a1"
       /\ StartDelete(p, c, id, MaxTicketOps)
  \/ \E p \in 1..RouteSlots :
       StartPost(p, "admin", "switch", TRUE, TRUE, MaxTicketOps)
  \/ RunMicrotask
  \/ \E a \in DOMAIN attempts, ok \in BOOLEAN : ConnectDone(a, ok)
  \/ \E p \in Procs : DisconnectDone(p)
  \/ \E p \in Procs, ok \in BOOLEAN : SaveDone(p, ok)
  \/ \E p \in Procs, ok \in BOOLEAN : FindDone(p, ok)
  \/ \E p \in Procs, ok \in BOOLEAN : DeleteDone(p, ok)
  \/ \E p \in Procs, ok \in BOOLEAN : CommentFindDone(p, ok)
  \/ \E p \in Procs, ok \in BOOLEAN : CommentSaveDone(p, ok)
  \/ \E p \in Procs, ok \in BOOLEAN : CommentHistoryDone(p, ok)

SpecThread == Init /\ [][NextThread]_vars

----------------------------------------------------------------------------
\* Requests suspended in dbConnect, and the attempt each one awaits.
Awaiting(p) ==
  /\ procs[p].status = "running"
  /\ procs[p].stack # <<>>
  /\ Top(Cur, p).fn = "dbConnect"

Awaited(p) == Top(Cur, p).att

Unsettled == {a \in DOMAIN attempts : ~Settled(attempts[a])}

\* C1: dbConnect calls issued while no connection is cached and before the
\* first establishment attempt has resolved all wait on one and the same
\* attempt: no two of them are suspended on different unresolved attempts.
C1_CallersShareOneAttempt ==
  \A p, q \in Procs :
    (Awaiting(p) /\ Awaiting(q) /\ Awaited(p) \in Unsettled
       /\ Awaited(q) \in Unsettled)
      => Awaited(p) = Awaited(q)

\* C2: under any interleaving of dbConnect, switchDatabase and dbDisconnect
\* at most one establishment attempt is unresolved at any time.
C2_AtMostOneUnresolved == Cardinality(Unsettled) <= 1

\* The primary call of the attempt failed and its secondary call succeeded.
FailedOver(att) ==
  /\ ~att.useSecondary
  /\ att.calls = <<[target |-> "primary", ok |-> FALSE],
                   [target |-> "secondary", ok |-> TRUE]>>

\* C3: with primary preferred, the primary unreachable and the secondary
\* reachable, an establishment tries the primary once and then the secondary
\* once, and the dbConnect request it serves returns that connection, leaving
\* it cached with cached.currentDb = 'secondary'.
C3_FailoverEndsOnSecondary ==
  /\ \A a \in DOMAIN attempts :
       LET att == attempts[a]
       IN (~att.useSecondary /\ Len(att.calls) >= 1 /\ ~att.calls[1].ok)
            => /\ att.calls[1].target = "primary"
               /\ Len(att.calls) = 1 => att.pc = "connect2"
               /\ Len(att.calls) >= 2 =>
                    /\ Len(att.calls) = 2
                    /\ att.calls[2].target = "secondary"
                    /\ att.calls[2].ok =>
                         att.pc = "resolved" /\ att.target = "secondary"
  /\ (done.op = "dbConnect" /\ done.att # 0
        /\ FailedOver(attempts[done.att]))
       => /\ done.res = Ok(done.att)
          /\ done.snap.conn = done.att
          /\ done.snap.currentDb = "secondary"

C3_Witness ==
  /\ done.op = "dbConnect"
  /\ done.att # 0
  /\ done.joined = 0
  /\ FailedOver(attempts[done.att])

\* Every establishment call made while the attempt was in flight failed.
BothDown(att) == Settled(att) /\ ~att.sawUp /\ att.calls # <<>>

\* C4: when both targets are unreachable for the whole of an establishment
\* attempt, the attempt fails, and a dbConnect request that awaited it fails
\* and leaves the cache disconnected: no connection, no in-flight attempt,
\* active role none.
C4_BothDownFailsAndResets ==
  /\ \A a \in DOMAIN attempts :
       (Settled(attempts[a]) /\ ~attempts[a].sawUp)
         => attempts[a].pc = "rejected"
  /\ (done.op = "dbConnect" /\ done.att # 0 /\ BothDown(attempts[done.att]))
       => ~done.res.ok /\ done.snap = EmptyCache

C4_Witness ==
  /\ done.op = "dbConnect"
  /\ done.att # 0
  /\ BothDown(attempts[done.att])
  /\ Len(attempts[done.att].calls) = 2

\* C5: when an establishment attempt fails, every dbConnect call that waited
\* on it ends in failure and clears cached.promise as it does so, and once
\* no caller is left waiting on the failed attempt cached.promise no longer
\* names it.
C5_FailureReachesEveryWaiter ==
  /\ [](\A a \in DOMAIN attempts :
          (attempts[a].pc = "rejected"
             /\ \A p \in Procs : ~(Awaiting(p) /\ Awaited(p) = a))
            => cached.promise # a)
  /\ [][\A p \in Procs :
          (mq # <<>> /\ Head(mq) = p /\ Awaiting(p)
             /\ attempts[Awaited(p)].pc = "rejected")
            => /\ cached'.promise = 0
               /\ ~(IF procs'[p].status = "idle" THEN done'.res
                    ELSE procs'[p].res).ok]_vars

C5_Witness ==
  \E p \in Procs :
    /\ Awaiting(p)
    /\ attempts[Awaited(p)].pc = "rejected"
    /\ done.op = "dbConnect"
    /\ done.att = Awaited(p)
    /\ ~done.res.ok

\* C6: one run of connectWithFailover makes at most two establishment calls:
\* the first to the preferred target, a second one only after a failed
\* primary and then to the secondary; a failed secondary-preferred run is
\* rejected after its single call and never tries the primary.
C6_AtMostOneFallback ==
  \A a \in DOMAIN attempts :
    LET att == attempts[a]
        n == Len(att.calls)
    IN /\ n <= 2
       /\ n >= 1 => att.calls[1].target = RoleOf(att.useSecondary)
       /\ n = 2 => /\ ~att.useSecondary
                   /\ ~att.calls[1].ok
                   /\ att.calls[2].target = "secondary"
       /\ (Settled(att) /\ ~att.useSecondary /\ n >= 1 /\ ~att.calls[1].ok)
            => n = 2
       /\ (att.useSecondary /\ n >= 1 /\ ~att.calls[1].ok)
            => /\ att.pc = "rejected"
               /\ n = 1
               /\ \A i \in 1..n : att.calls[i].target # "primary"

C6_Witness ==
  \E a \in DOMAIN attempts :
    /\ attempts[a].useSecondary
    /\ attempts[a].pc = "rejected"
    /\ attempts[a].calls = <<[target |-> "secondary", ok |-> FALSE]>>

\* C7: when dbDisconnect returns, whatever state it was called in, the cache
\* holds no connection, no in-flight attempt and active role none.
C7_DisconnectClearsCache ==
  done.op = "dbDisconnect" => done.snap = EmptyCache

\* C8: a switchDatabase(role) that begins while an establishment attempt is
\* in flight is not served by that attempt: its connection comes from a
\* later attempt made under the requested role.
C8_SwitchNotServedByOldAttempt ==
  (done.op = "switchDatabase" /\ done.joined # 0)
    => /\ done.att # done.joined
       /\ done.att # 0 => attempts[done.att].useSecondary = done.arg

\* C9: a switchDatabase(r) whose establishment did not connect to r reports
\* failure and leaves the cache disconnected; it never ends connected to the
\* other role.
C9_FailedSwitchLeavesDisconnected ==
  (done.op = "switchDatabase" /\ done.joined = 0 /\ done.att # 0
     /\ attempts[done.att].target # RoleOf(done.arg))
    => ~done.res.ok /\ done.snap = EmptyCache

\* C10: a management 'switch' whose requested role is already the active
\* role answers 200 in the step it arrives in, and that step changes neither
\* the cache nor the preferred role, starts no attempt, begins no disconnect
\* and writes no audit entry.
C10_SwitchToActiveRoleIsNoOp ==
  [][(done'.op = "POST" /\ done'.session = "admin" /\ done'.flagOk
        /\ done'.action = "switch" /\ done'.prev = RoleOf(done'.arg))
       => /\ done'.res = Code(200)
          /\ cached' = cached
          /\ useSecondaryDb' = useSecondaryDb
          /\ attempts' = attempts
          /\ mongo' = mongo
          /\ procs' = procs
          /\ auditLog' = auditLog]_vars

C10_Witness ==
  /\ done.op = "POST"
  /\ done.session = "admin"
  /\ done.flagOk
  /\ done.action = "switch"
  /\ done.prev = RoleOf(done.arg)
  /\ done.res = Code(200)
  /\ cached.conn # NoConn

\* The frame a request is suspended in, if any.
InFn(pr, fn) == pr.stack # <<>> /\ pr.stack[Len(pr.stack)].fn = fn

\* The step is one of testDatabaseConnection run for p: its call, alone or
\* from the route, or the completion of its asPromise() or close().
ProbeStep(p) ==
  \/ /\ procs'[p] # procs[p]
     /\ InFn(procs[p], "testDatabaseConnection")
          \/ InFn(procs'[p], "testDatabaseConnection")
  \/ /\ ops' = ops + 1
     /\ procs[p].status = "idle"
     /\ done'.op = "testDatabaseConnection"
          \/ (procs'[p].status = "running" /\ procs'[p].action = "test")

\* C11: no step of testDatabaseConnection, for either role, in any cache
\* state, with the probe succeeding or failing, changes the cached
\* connection, the in-flight marker, cached.currentDb or the preferred role,
\* or touches the default connection or the establishment attempts.
C11_ProbeLeavesCacheAlone ==
  [][(\E p \in Procs : ProbeStep(p))
       => /\ cached' = cached
          /\ useSecondaryDb' = useSecondaryDb
          /\ attempts' = attempts
          /\ mongo' = mongo]_vars

C11_Witness ==
  /\ done.op = "testDatabaseConnection"
  /\ done.arg
  /\ done.res = Ok(1)
  /\ cached.conn # NoConn
  /\ cached.currentDb = "primary"

\* C12: testDatabaseConnection never throws to its caller: whatever the
\* configuration and the state of the targets, a call returns a result.
C12_ProbeNeverThrows ==
  done.op = "testDatabaseConnection" => done.res.ok

AuditOf(d) == {i \in DOMAIN auditLog : auditLog[i].req = d.id}

\* The request that has just returned is an admin's well-formed action.
Managed(d, action) ==
  /\ d.op = "POST"
  /\ d.session = "admin"
  /\ d.flagOk
  /\ d.action = action

\* C14: a management switch to a role other than the active one, whether it
\* answers 200 or 500, has stored exactly one audit record by the time it
\* answers, and the record holds the prior role, the requested role and the
\* outcome.
C14_SwitchWritesOneAudit ==
  (Managed(done, "switch") /\ done.prev # RoleOf(done.arg))
    => /\ Cardinality(AuditOf(done)) = 1
       /\ \A i \in AuditOf(done) :
            /\ auditLog[i].data.kind = "switch"
            /\ auditLog[i].data.from = done.prev
            /\ auditLog[i].data.to = RoleOf(done.arg)
            /\ auditLog[i].data.outcome =
                 IF done.res = Code(200) THEN "success" ELSE "failed"

\* C15: a well-formed management 'test' by an admin has stored exactly one
\* audit record by the time it answers, naming the probed role and the
\* probe's outcome, whatever the live connection and the probe did.
C15_TestWritesOneAudit ==
  Managed(done, "test")
    => /\ Cardinality(AuditOf(done)) = 1
       /\ \A i \in AuditOf(done) :
            /\ auditLog[i].data.kind = "test"
            /\ auditLog[i].data.to = RoleOf(done.arg)
            /\ auditLog[i].data.outcome \in {"success", "failed"}

\* The request in the slot is an admin's well-formed 'test'.
Testing(pr) ==
  /\ pr.op = "POST"
  /\ pr.session = "admin"
  /\ pr.flagOk
  /\ pr.action = "test"

\* C16: no step of a management 'test' request, from its arrival to its
\* response, changes cached.currentDb or the cached connection or starts an
\* establishment attempt, in any cache state.
C16_TestSwitchesNothing ==
  [][\A p \in Procs :
       (procs'[p] # procs[p] /\ (Testing(procs[p]) \/ Testing(procs'[p])))
         => /\ cached'.conn = cached.conn
            /\ cached'.currentDb = cached.currentDb
            /\ Len(attempts') = Len(attempts)]_vars

\* createAuditLog has returned to the handler of p, which has yet to resume.
AuditReturned(p) ==
  /\ procs[p].status = "running"
  /\ procs[p].stack # <<>>
  /\ Top(Cur, p).fn \in {"POST", "DELETE"}
  /\ Top(Cur, p).pc \in {"awaitAudit", "awaitAuditOk", "awaitAuditFail",
                          "awaitAuditTest"}
  /\ \E i \in DOMAIN mq : mq[i] = p

\* The request is inside createAuditLog or a call made from it.
InAudit(pr) ==
  \E i \in DOMAIN pr.stack : pr.stack[i].fn = "createAuditLog"

C18_ResponseCodes ==
  /\ [](done.op = "POST" =>
          /\ done.session = "none" => done.res = Code(401)
          /\ done.session = "user" => done.res = Code(403)
          /\ (done.session = "admin"
                /\ (done.action \in {"missing", "other"} \/ ~done.flagOk))
               => done.res = Code(400)
          /\ (Managed(done, "switch") \/ Managed(done, "test"))
               => done.res \in {Code(200), Code(500)}
          /\ (Managed(done, "switch") /\ done.prev = RoleOf(done.arg))
               => done.res = Code(200))
  /\ [][\A p \in Procs :
          (mq # <<>> /\ Head(mq) = p /\ InFn(procs[p], "POST"))
            => LET pc == Top(Cur, p).pc
                   threw == ~procs[p].res.ok
               IN /\ pc = "awaitSwitch" =>
                       procs'[p].stack[1].pc =
                         IF threw THEN "awaitAuditFail" ELSE "awaitAuditOk"
                  /\ pc = "awaitTest" =>
                       IF threw THEN done'.res = Code(500)
                       ELSE procs'[p].stack[1].pc = "awaitAuditTest"
                  /\ pc \in {"awaitAuditOk", "awaitAuditTest"} =>
                       done'.res = Code(200)
                  /\ pc = "awaitAuditFail" => done'.res = Code(500)]_vars
  /\ [][\A p \in Procs :
          (mq # <<>> /\ Head(mq) = p /\ Len(procs[p].stack) >= 2
             /\ procs[p].stack[1].fn = "POST"
             /\ procs[p].stack[2].fn = "switchDatabase")
            => /\ InFn(procs[p], "dbConnect") =>
                    (procs'[p].res.ok
                       <=> attempts[Awaited(p)].pc = "resolved")
               /\ (InFn(procs[p], "switchDatabase")
                     /\ Top(Cur, p).pc = "awaitConnect") =>
                    procs'[p].res.ok = procs[p].res.ok]_vars
  /\ [][(done'.op = "POST"
           /\ done'.res \in {Code(401), Code(403), Code(400)})
         => /\ ops' = ops + 1
            /\ cached' = cached
            /\ useSecondaryDb' = useSecondaryDb
            /\ attempts' = attempts
            /\ mongo' = mongo
            /\ probes' = probes
            /\ auditLog' = auditLog
            /\ tickets' = tickets
            /\ procs' = procs]_vars

C18_Witness ==
  /\ done.op = "POST"
  /\ done.session = "user"
  /\ done.action = "switch"
  /\ ~done.flagOk
  /\ done.res = Code(403)
  /\ cached.conn # NoConn

\* C19: with PRIMARY_DB_URI or SECONDARY_DB_URI absent, whatever the
\* preferred role, no establishment call is ever made and every attempt is
\* rejected as it starts; a dbConnect request fails and returns with the
\* cache disconnected and cached.promise cleared.
C19_MissingUriFailsWithoutCalls ==
  ~(uri["primary"] /\ uri["secondary"])
    => /\ \A a \in DOMAIN attempts :
            attempts[a].calls = <<>> /\ attempts[a].pc = "rejected"
       /\ mongo = "none"
       /\ done.op = "dbConnect" => ~done.res.ok /\ done.snap = EmptyCache

C19_Witness ==
  /\ uri["primary"]
  /\ ~uri["secondary"]
  /\ ~useSecondaryDb
  /\ done.op = "dbConnect"
  /\ done.att # 0
  /\ ~done.res.ok

\* C20: a dbConnect call that arrives with a connection cached returns that
\* connection in the step it arrives in, and that step starts no attempt and
\* changes neither the cache nor the preferred role nor the default
\* connection.
C20_CachedConnectionReturned ==
  [][(/\ ops' = ops + 1
      /\ cached.conn # NoConn
      /\ \E p \in Procs :
           /\ procs[p].status = "idle"
           /\ done'.op = "dbConnect" \/ procs'[p].op = "dbConnect")
       => /\ done'.op = "dbConnect"
          /\ done'.res = Ok(cached.conn)
          /\ cached' = cached
          /\ useSecondaryDb' = useSecondaryDb
          /\ attempts' = attempts
          /\ mongo' = mongo
          /\ procs' = procs
          /\ mq' = mq]_vars

C20_Witness ==
  /\ done.op = "dbConnect"
  /\ done.att = 0
  /\ done.res.ok
  /\ done.res.val # NoConn
  /\ done.res.val = cached.conn

\* C25: a dbConnect call never returns a connection while the default
\* mongoose connection is closed or closing: once a dbDisconnect has called
\* mongoose.disconnect(), the connection it tears down is handed out no more.
C25_NoConnectionUnderTeardown ==
  (done.op = "dbConnect" /\ done.res.ok) => mongo # "none"

\* C26: a cached connection has a recorded role, and the role is the target
\* that connection was established to.
C26_CachedRoleIsConnectionTarget ==
  cached.conn # NoConn
    => /\ cached.currentDb \in Roles
       /\ cached.currentDb = attempts[cached.conn].target

\* p resumes in switchDatabase at the given point.
SwitchStep(p, pc) ==
  /\ mq # <<>>
  /\ Head(mq) = p
  /\ InFn(procs[p], "switchDatabase")
  /\ Top(Cur, p).pc = pc

\* C27: switchDatabase(r) sets the preferred role to r in the step in which
\* it calls dbConnect, and no other step changes the preferred role, the
\* return of a failed switch included; an attempt takes the preferred role
\* of the moment it starts, and one started with the secondary preferred
\* calls the secondary only.
C27_PreferenceSurvivesFailedSwitch ==
  /\ [][\A p \in Procs :
          SwitchStep(p, "awaitDisconnect")
            => /\ useSecondaryDb' = Top(Cur, p).useSec
               /\ Len(attempts') > Len(attempts) =>
                    attempts'[Len(attempts')].useSecondary
                      = Top(Cur, p).useSec]_vars
  /\ [][useSecondaryDb' # useSecondaryDb
          => \E p \in Procs : SwitchStep(p, "awaitDisconnect")]_vars
  /\ [][Len(attempts') > Len(attempts)
          => /\ Len(attempts') = Len(attempts) + 1
             /\ attempts'[Len(attempts')].useSecondary = useSecondaryDb'
             /\ attempts'[Len(attempts')].calls = <<>>]_vars
  /\ [](\A a \in DOMAIN attempts :
          attempts[a].useSecondary =>
            \A i \in DOMAIN attempts[a].calls :
              attempts[a].calls[i].target = "secondary")

C27_Witness ==
  /\ done.op = "dbConnect"
  /\ done.att = 3
  /\ useSecondaryDb
  /\ ~attempts[1].useSecondary
  /\ attempts[1].target = "primary"
  /\ attempts[2].useSecondary
  /\ attempts[2].pc = "rejected"
  /\ attempts[3].useSecondary
  /\ attempts[3].calls = <<[target |-> "secondary", ok |-> FALSE]>>

\* C28: when a management 'switch' for role r answers 200, for an actual
\* switch or for the already-connected no-op, the preferred role is r.
C28_SwitchOkSetsPreference ==
  (Managed(done, "switch") /\ done.res = Code(200))
    => useSecondaryDb = done.arg

\* C29: getConnectionStatus changes nothing and reports cached.currentDb, the
\* role recorded when the last establishment resolved, never the merely
\* preferred role: 'none' while no connection is cached and when a
\* dbDisconnect returns, and the role an
\* attempt reached from the moment it resolves, 'secondary' after a failover
\* under a primary preference.
C29_StatusIsPureRead ==
  /\ [][done'.op = "getConnectionStatus"
          => /\ cached' = cached
             /\ useSecondaryDb' = useSecondaryDb
             /\ attempts' = attempts
             /\ mongo' = mongo
             /\ procs' = procs
             /\ mq' = mq
             /\ done'.status.currentDatabase = cached.currentDb
             /\ done'.status.isConnected = (mongo # "none")]_vars
  /\ []((done.op = "getConnectionStatus" /\ cached.conn = NoConn)
          => done.status.currentDatabase = "none")
  /\ [](done.op = "dbDisconnect" => done.snap.currentDb = "none")
  /\ [][\A a \in DOMAIN attempts :
          (attempts[a].pc # "resolved" /\ attempts'[a].pc = "resolved")
            => /\ cached'.currentDb = attempts'[a].target
               /\ FailedOver(attempts'[a]) =>
                    cached'.currentDb = "secondary"]_vars

C29_Witness ==
  /\ done.op = "getConnectionStatus"
  /\ done.status.currentDatabase = "secondary"
  /\ ~useSecondaryDb
  /\ cached.conn # NoConn
  /\ FailedOver(attempts[cached.conn])

\* The request acting in the step is p.
Acts(p) == procs'[p] # procs[p]

\* r, a request in progress or one that has returned, is a signed-in
\* non-admin's request on a ticket that is stored under another user.
Foreign(r) ==
  /\ r.op \in GetRoutes \cup {"POST comment", "DELETE"}
  /\ r.session = "user"
  /\ r.ticket \in TicketIds
  /\ \A db \in Roles : tickets[db][r.ticket] \notin {"none", r.who}

\* C21 as stated: a non-admin's request on another user's ticket answers
\* 403.
C21_ForeignRequestAnswers403 ==
  Foreign(done) => done.res = Code(403)

\* C21, amended: a non-admin never receives data of, and never deletes, a
\* ticket owned by another user.  Every response to a non-admin, the list
\* under any filter included, holds only tickets whose userId is the
\* caller's; no step of a non-admin's GET ticket, GET comments, GET history,
\* POST comment or DELETE on another user's ticket changes a ticket, a
\* comment, the history or the audit log; and the request answers 403,
\* unless the comment is blank or too long (400) or the database fails
\* (500).
C21_NoForeignAccess ==
  /\ [](done.session = "user" => done.out.owners \subseteq {done.who})
  /\ [](Foreign(done)
          => /\ done.res.val \in {400, 403, 500}
             /\ done.res.val = 400
                  => /\ done.op = "POST comment"
                     /\ done.body.content \in {"", "long"}
             /\ (done.op = "POST comment"
                  /\ done.body.content \in {"", "long"})
                  => done.res.val = 400)
  /\ [][\A p \in Procs :
          (Acts(p) /\ (Foreign(procs[p]) \/ Foreign(procs'[p])
                        \/ Foreign(done')))
            => /\ tickets' = tickets
               /\ ticketFields' = ticketFields
               /\ comments' = comments
               /\ history' = history
               /\ auditLog' = auditLog]_vars

C21_Witness ==
  /\ done.op = "DELETE"
  /\ done.session = "user"
  /\ done.who = "u2"
  /\ done.res = Code(403)
  /\ mongo # "none"
  /\ tickets[mongo][done.ticket] = "u1"

\* The PUT body passes validation (lines 692-719).
ValidPut(body) ==
  /\ body.status \in ValidStatus \cup {""}
  /\ body.priority \in ValidPriority \cup {""}
  /\ body.category \in ValidCategory \cup {""}
  /\ <<body.status, body.priority, body.category>> # <<"", "", "">>

\* The TicketHistory documents written for the request that has returned.
HistoryOf(d) == {i \in DOMAIN history : history[i].req = d.id}

\* C22 as stated: a PUT by a signed-in non-admin answers 403.
C22_NonAdminPutAnswers403 ==
  (done.op = "PUT" /\ done.session = "user") => done.res = Code(403)

\* C22, amended: no step of a PUT by a non-admin, the ticket's owner
\* included, changes a ticket, the ticket history or the audit log, and the
\* PUT never answers 200: it answers 401 without a session, else 400 for an
\* invalid or empty body, else 500 when the database fails, else 404 for an
\* id that is not stored and 403 for one that is.
C22_NonAdminPutChangesNothing ==
  /\ [][\A p \in Procs :
          (/\ Acts(p)
           /\ \/ procs[p].op = "PUT" /\ procs[p].session # "admin"
              \/ procs'[p].op = "PUT" /\ procs'[p].session # "admin"
              \/ done'.op = "PUT" /\ done'.session # "admin")
            => /\ tickets' = tickets
               /\ ticketFields' = ticketFields
               /\ history' = history
               /\ auditLog' = auditLog]_vars
  /\ []((done.op = "PUT" /\ done.session # "admin")
          => /\ done.session = "none" => done.res = Code(401)
             /\ (done.session = "user" /\ ~ValidPut(done.body))
                  => done.res = Code(400)
             /\ (done.session = "user" /\ ValidPut(done.body))
                  => /\ done.res.val \in {403, 404, 500}
                     /\ done.res.val = 403 => done.ticket \in TicketIds
                     /\ done.res.val = 404 => done.ticket \notin TicketIds
             /\ HistoryOf(done) = {}
             /\ AuditOf(done) = {})

C22_Witness ==
  /\ done.op = "PUT"
  /\ done.session = "user"
  /\ done.who = "u1"
  /\ done.body.status = "closed"
  /\ done.res = Code(403)
  /\ mongo # "none"
  /\ tickets[mongo][done.ticket] = "u1"
  /\ ticketFields[mongo][done.ticket] = NewFields

\* C23: every change to a ticket is recorded in its history.  Between
\* requests, a stored field that differs from its original value has a
\* history entry with that new value; an admin PUT answering 200 with k
\* changes has stored exactly k entries, one per changed field, and with no
\* change it has stored no history entry and no audit record.
C23_EveryChangeRecorded ==
  /\ (\A p \in Procs : procs[p].status = "idle")
       => \A r \in Roles, t \in TicketIds, f \in DOMAIN NewFields :
            ticketFields[r][t][f] # NewFields[f]
              => \E i \in DOMAIN history :
                   /\ history[i].db = r
                   /\ history[i].ticketId = t
                   /\ history[i].field = f
                   /\ history[i].newValue = ticketFields[r][t][f]
  /\ (done.op = "PUT" /\ done.res = Code(200))
       => /\ Cardinality(HistoryOf(done)) = done.out.changes
          /\ Cardinality({history[i].field : i \in HistoryOf(done)})
               = done.out.changes
          /\ \A i \in HistoryOf(done) :
               /\ history[i].newValue = done.body[history[i].field]
               /\ history[i].oldValue # history[i].newValue
          /\ done.out.changes = 0 => AuditOf(done) = {}

\* C24: the audit trail is append-only.  Every step of every request
\* leaves the audit records stored so far as they are and in place; it can
\* only add records after them.
C24_AuditAppendOnly ==
  [][/\ Len(auditLog') >= Len(auditLog)
     /\ SubSeq(auditLog', 1, Len(auditLog)) = auditLog]_vars

C24_Witness ==
  /\ Len(auditLog) = 2
  /\ auditLog[1].data.kind = "create_ticket"
  /\ auditLog[2].data.kind = "delete_ticket"
  /\ auditLog[1].req # auditLog[2].req
  /\ done.op = "DELETE"

\* C30: every stored comment and every stored history entry refers to a
\* ticket that is still stored in its database.
C30_NoOrphans ==
  /\ \A i \in DOMAIN comments :
       tickets[comments[i].db][comments[i].ticketId] # "none"
  /\ \A i \in DOMAIN history :
       tickets[history[i].db][history[i].ticketId] # "none"

====
